---- MODULE Spec2Model ----
(***************************************************************************)
(* Model of the static array arena allocator of src/src/sara.c             *)
(* (StaticArrayPoolInit, StaticArrayAlloc, StaticArrayRealloc,             *)
(* StaticArrayFree, StaticArrayIsAlloc, Helper_FindBlock).                 *)
(*                                                                         *)
(* Addresses are byte offsets from &ArrayArenaPool[0]; pointer arithmetic  *)
(* is flat integer arithmetic.  A descriptor table is the sequence of its  *)
(* first len entries (C index i is sequence index i + 1).                  *)
(* Every byte of the arena starts with a value of its own, named by its    *)
(* offset; mem lists the copies <<dst, src, n>> made since, in order.      *)
(* space_available is a size_t: it is held as the representative of its    *)
(* value modulo 2^w nearest to zero, so a negative value stands for a      *)
(* counter that has wrapped below zero (a huge unsigned number).           *)
(***************************************************************************)
EXTENDS Integers, Sequences, FiniteSets, TLC

VARIABLES
  VEC_ARRAY_ARENA_SIZE,   \* build-time macro: size of ArrayArenaPool
  NDEBUG,                 \* build-time macro: TRUE when assert() is compiled out
  lists,                  \* ArrayArena.lists[sz].blocks[0 .. len-1]
  arena_initialized,      \* ArrayArena.arena_initialized
  space_available,        \* ArrayArena.space_available
  status,                 \* "running", "aborted" (assert failed), "undefined"
  call,                   \* the last public call: [op, ptr, req, was]; was tells
                          \* whether ptr was reported allocated when it was made
  ret,                    \* address returned by the last Alloc / Realloc
  ret_b,                  \* value returned by the last IsAlloc
  cls,                    \* class index the last Alloc selected
  held,                   \* blocks handed to the caller and not yet released
  mem,                    \* ArrayArenaPool contents: the memcpy calls made so far
  path,                   \* the branch the last Realloc returned from
  scan,                   \* where a call that is followed loop by loop stands
  nops                    \* number of public calls made so far

vars == <<VEC_ARRAY_ARENA_SIZE, NDEBUG, lists, arena_initialized,
          space_available, status, call, ret, ret_b, cls, held, mem, path, scan, nops>>

----------------------------------------------------------------------------
(* Bounds of the exploration *)

MaxOps == 5

ArenaSizes == {2048, 2016, 96}

ReqSizes == {8, 20, 32, 64, 100, 300, 1000, 1024, 1025}

ReallocSizes == {0, 8, 20, 33, 64, 65}

\* number of calls of a run that follows its calls loop by loop
MaxScanOps == 3

ScanSizes == {20, 32, 64, 1000}

\* the arena sizes 1 .. MaxArena of the runs that only initialize and fill
MaxArena == 2100

\* number of StaticArrayAlloc calls of a run that fills the arena
MaxFill == 5

\* number of StaticArrayAlloc calls of a run that allocates, then frees
MaxAllocs == 3

TripSizes == {20, 32, 64}

----------------------------------------------------------------------------
(* Constants of the program *)

NULL == -1

NUM_OF_BLOCK_SIZES == 6

BLKS_LARGEST_SIZE == 0

BlockSize_E_to_Int ==
  (0 :> 1024) @@ (1 :> 512) @@ (2 :> 256) @@ (3 :> 128) @@ (4 :> 64) @@ (5 :> 32)

Classes == 0 .. (NUM_OF_BLOCK_SIZES - 1)

\* ArrayArena.lists[sz].block_size
block_size(sz) == BlockSize_E_to_Int[sz]

\* BLOCKS_<n>_LIST_CAPACITY
LIST_CAPACITY(sz) == (VEC_ARRAY_ARENA_SIZE \div block_size(sz)) + 1

\* BLOCKS_<n>_LIST_INIT_LEN
LIST_INIT_LEN(A, sz) ==
  IF sz = BLKS_LARGEST_SIZE
    THEN (A \div block_size(sz)) + 1
    ELSE ((A % (2 * block_size(sz))) \div block_size(sz)) + 1

Blk(p, f) == [ptr |-> p, is_free |-> f]

\* the static initializer of ArrayArena: lengths set, tables zeroed
StaticLists(A) ==
  [sz \in Classes |-> [j \in 1 .. (LIST_INIT_LEN(A, sz) - 1) |-> Blk(NULL, FALSE)]]

StaticSpace(A) == A - (A % 32)

Min(S) == CHOOSE x \in S : \A y \in S : x <= y

Max(S) == CHOOSE x \in S : \A y \in S : x >= y

RECURSIVE SumLen(_, _)
SumLen(L, sz) ==
  IF sz < 0 THEN 0 ELSE Len(L[sz]) * block_size(sz) + SumLen(L, sz - 1)

----------------------------------------------------------------------------
(* Helper_FindBlock *)

\* an address inside a block is taken for the block
Matches_interior(L, p) ==
  UNION {{[sz |-> s, idx |-> i] :
            i \in {k \in 0 .. (Len(L[s]) - 1) :
                     L[s][k + 1].ptr <= p /\ p < L[s][k + 1].ptr + block_size(s)}} :
         s \in Classes}

\* line 335: list->blocks[i].ptr == ptr
Matches(L, p) ==
  UNION {{[sz |-> s, idx |-> i] :
            i \in {k \in 0 .. (Len(L[s]) - 1) : L[s][k + 1].ptr = p}} :
         s \in Classes}

Before(m, n) == m.sz < n.sz \/ (m.sz = n.sz /\ m.idx < n.idx)

FirstMatch(M) == CHOOSE m \in M : \A n \in M : n = m \/ Before(m, n)

LastMatch(M) == CHOOSE m \in M : \A n \in M : n = m \/ Before(n, m)

NotFound == [found |-> FALSE, sz |-> 0, idx |-> 0, abort |-> FALSE]

\* the lookup without assert( ArrayArena.arena_initialized )
Helper_FindBlock_unchecked(L, p) ==
  IF p = NULL THEN NotFound
  ELSE LET M == Matches(L, p) IN
    IF M = {} THEN NotFound
    ELSE IF NDEBUG
      THEN [found |-> TRUE, sz |-> FirstMatch(M).sz, idx |-> FirstMatch(M).idx,
            abort |-> FALSE]
      ELSE [found |-> TRUE, sz |-> LastMatch(M).sz, idx |-> LastMatch(M).idx,
            abort |-> Cardinality(M) > 1]

Helper_FindBlock(L, p) ==
  IF ~NDEBUG /\ ~arena_initialized THEN [NotFound EXCEPT !.abort = TRUE]
  ELSE IF p = NULL THEN NotFound
  ELSE LET M == Matches(L, p) IN
    IF M = {} THEN NotFound
    ELSE IF NDEBUG
      THEN [found |-> TRUE, sz |-> FirstMatch(M).sz, idx |-> FirstMatch(M).idx,
            abort |-> FALSE]
      ELSE [found |-> TRUE, sz |-> LastMatch(M).sz, idx |-> LastMatch(M).idx,
            abort |-> Cardinality(M) > 1]

----------------------------------------------------------------------------
(* StaticArrayAlloc *)

Outcome(L, sa, st, r, c) ==
  [lists |-> L, space_available |-> sa, status |-> st, ret |-> r, cls |-> c]

\* the request is compared with the size of the arena, not with what is left
OutOfSpace_arena_size(req, sa) == sa >= 0 /\ req > VEC_ARRAY_ARENA_SIZE

\* line 160: req_bytes > ArrayArena.space_available, on size_t
OutOfSpace(req, sa) == sa >= 0 /\ req > sa

\* lines 168-173: the debug-build check of the order of the lists
ListsSortedAssert ==
  \A sz \in 1 .. (NUM_OF_BLOCK_SIZES - 1) : block_size(sz) > block_size(sz - 1)

\* line 186: a class is skipped while req_bytes < block_size / 2
Skips(req, sz) == req < (block_size(sz) \div 2)

\* lines 183-188: the index the for loop stops at (NUM_OF_BLOCK_SIZES: none)
Selected(req) ==
  LET C == {sz \in Classes : ~Skips(req, sz)}
  IN  IF C = {} THEN NUM_OF_BLOCK_SIZES ELSE Min(C)

FreeIdx(list) == {j \in 1 .. Len(list) : list[j].is_free}

\* lines 194-203: the scan of the selected list (it has no break)
DirectHitList(list) == [j \in 1 .. Len(list) |-> Blk(list[j].ptr, FALSE)]

DirectHitPtr(list) == list[Max(FreeIdx(list))].ptr

\* lines 222-226: the two descriptors written for donor block d
SplitPair(d, donor_bs) == <<Blk(d.ptr, FALSE), Blk(d.ptr + donor_bs, TRUE)>>

\* lines 216-231: the scan of lists[sz + 1] from its tail (it has no break);
\* i is the C index, donor the table as it was when the scan began
RECURSIVE SplitLoop(_, _, _, _, _)
SplitLoop(i, donor, dlen, list, donor_bs) ==
  IF i < 0 THEN [list |-> list, dlen |-> dlen]
  ELSE IF ~donor[i + 1].is_free
    THEN SplitLoop(i - 1, donor, dlen, list, donor_bs)
    ELSE SplitLoop(i - 1, donor, dlen - 1,
                   list \o SplitPair(donor[i + 1], donor_bs), donor_bs)

\* line 215: the list the split path takes a block from
DonorOf(sz) == sz + 1

\* line 237: space_available -= space_allocated
Debit(sa, space_allocated) == sa - space_allocated

\* the class size is debited although no donor block was found
SplitOutcomes_debits_on_failure(L, sa, sz) ==
  LET dn    == DonorOf(sz)
      donor == L[dn]
      r     == SplitLoop(Len(donor) - 1, donor, Len(donor), L[sz], block_size(dn))
      L2    == [L EXCEPT ![sz] = r.list, ![dn] = SubSeq(donor, 1, r.dlen)]
      done  == Outcome(L2, Debit(sa, block_size(sz)), "running",
                       r.list[Len(r.list) - 1].ptr, sz)
  IN  IF FreeIdx(donor) = {}
        THEN {Outcome(L, Debit(sa, block_size(sz)), "running", NULL, sz)}
      ELSE IF Len(r.list) > LIST_CAPACITY(sz)
        \* list->blocks[list->len] written past the end of the table
        THEN {done, Outcome(L, sa, "undefined", NULL, sz)}
        ELSE {done}

SplitOutcomes(L, sa, sz) ==
  LET dn    == DonorOf(sz)
      donor == L[dn]
      r     == SplitLoop(Len(donor) - 1, donor, Len(donor), L[sz], block_size(dn))
      L2    == [L EXCEPT ![sz] = r.list, ![dn] = SubSeq(donor, 1, r.dlen)]
      done  == Outcome(L2, Debit(sa, block_size(sz)), "running",
                       r.list[Len(r.list) - 1].ptr, sz)
  IN  IF FreeIdx(donor) = {} THEN {Outcome(L, sa, "running", NULL, sz)}
      ELSE IF Len(r.list) > LIST_CAPACITY(sz)
        \* list->blocks[list->len] written past the end of the table
        THEN {done, Outcome(L, sa, "undefined", NULL, sz)}
        ELSE {done}

StaticArrayAlloc(L, sa, req) ==
  IF ~NDEBUG /\ ~arena_initialized
    THEN {Outcome(L, sa, "aborted", NULL, NUM_OF_BLOCK_SIZES)}
  ELSE IF OutOfSpace(req, sa)
    THEN {Outcome(L, sa, "running", NULL, NUM_OF_BLOCK_SIZES)}
  ELSE IF ~NDEBUG /\ (~ListsSortedAssert \/ req > 1024)
    THEN {Outcome(L, sa, "aborted", NULL, NUM_OF_BLOCK_SIZES)}
  ELSE LET sz == Selected(req) IN
    IF sz = NUM_OF_BLOCK_SIZES
      THEN {Outcome(L, sa, "running", NULL, sz)}
    ELSE IF FreeIdx(L[sz]) # {}
      THEN {Outcome([L EXCEPT ![sz] = DirectHitList(L[sz])],
                    Debit(sa, block_size(sz)), "running", DirectHitPtr(L[sz]), sz)}
    ELSE IF sz = BLKS_LARGEST_SIZE
      THEN {Outcome(L, sa, "running", NULL, sz)}
    ELSE IF DonorOf(sz) \notin Classes
      \* ArrayArena.lists[NUM_OF_BLOCK_SIZES] is read: its len is whatever
      \* follows the struct; 0 ends the call, anything else is not defined
      THEN {Outcome(L, sa, "running", NULL, sz), Outcome(L, sa, "undefined", NULL, sz)}
    ELSE SplitOutcomes(L, sa, sz)

----------------------------------------------------------------------------
(* StaticArrayFree, StaticArrayIsAlloc *)

\* the block's size is credited but its descriptor is left allocated
FreeBlock_keeps_flag(L, sa, f) ==
  [lists |-> L,
   space_available |-> sa + BlockSize_E_to_Int[f.sz],
   status |-> "running"]

\* lines 298-299
FreeBlock(L, sa, f) ==
  [lists |-> [L EXCEPT ![f.sz][f.idx + 1].is_free = TRUE],
   space_available |-> sa + BlockSize_E_to_Int[f.sz],
   status |-> "running"]

StaticArrayFree(L, sa, p) ==
  LET f == Helper_FindBlock(L, p) IN
  IF f.abort THEN [lists |-> L, space_available |-> sa, status |-> "aborted"]
  ELSE IF ~f.found THEN [lists |-> L, space_available |-> sa, status |-> "running"]
  ELSE FreeBlock(L, sa, f)

StaticArrayIsAlloc(L, p) ==
  LET f == Helper_FindBlock(L, p) IN
  IF f.abort THEN [status |-> "aborted", ret |-> FALSE]
  ELSE IF ~f.found THEN [status |-> "running", ret |-> FALSE]
  ELSE [status |-> "running", ret |-> ~L[f.sz][f.idx + 1].is_free]

----------------------------------------------------------------------------
(* StaticArrayRealloc *)

Overlap(a, n, b, m) == a < b + m /\ b < a + n

\* line 275: memcpy( tmp, ptr, num_of_bytes ) is only defined for two
\* disjoint ranges that both lie inside ArrayArenaPool
MemcpyDefined(dst, src, n) ==
  /\ ~Overlap(dst, n, src, n)
  /\ dst >= 0 /\ dst + n <= VEC_ARRAY_ARENA_SIZE
  /\ src >= 0 /\ src + n <= VEC_ARRAY_ARENA_SIZE

\* the value held at offset o after the copies of m, made in order
RECURSIVE Val(_, _)
Val(m, o) ==
  IF m = <<>> THEN o
  ELSE LET c    == m[Len(m)]
           rest == SubSeq(m, 1, Len(m) - 1)
       IN  IF o >= c[1] /\ o < c[1] + c[3]
             THEN Val(rest, c[2] + (o - c[1]))
             ELSE Val(rest, o)

NoCopy == <<>>

ROutcome(L, sa, st, r, c, pth, cp) ==
  [lists |-> L, space_available |-> sa, status |-> st, ret |-> r, cls |-> c,
   path |-> pth, copy |-> cp]

\* the old block is released although no new block was obtained
AllocFailed_frees_old(L, sa, p, a) ==
  LET fr == StaticArrayFree(a.lists, a.space_available, p)
  IN  ROutcome(fr.lists, fr.space_available, fr.status, NULL, a.cls, "allocfail", NoCopy)

\* lines 280-282: the inner StaticArrayAlloc returned NULL
AllocFailed(L, sa, p, a) ==
  ROutcome(a.lists, a.space_available, "running", p, a.cls, "allocfail", NoCopy)

\* lines 270-283, for one outcome a of the inner StaticArrayAlloc
ReallocMove(L, sa, p, req, f, a) ==
  IF a.status # "running" THEN {ROutcome(L, sa, a.status, NULL, a.cls, "stopped", NoCopy)}
  ELSE IF a.ret = NULL THEN {AllocFailed(L, sa, p, a)}
  ELSE
    LET old_blk_size == BlockSize_E_to_Int[f.sz]
        num_of_bytes == IF req > old_blk_size THEN old_blk_size ELSE req
        fr           == StaticArrayFree(a.lists, a.space_available, p)
        moved        == IF fr.status = "running"
                          THEN ROutcome(fr.lists, fr.space_available, "running", a.ret,
                                        a.cls, "moved", <<a.ret, p, num_of_bytes>>)
                          ELSE ROutcome(L, sa, fr.status, NULL, a.cls, "stopped", NoCopy)
    IN  IF MemcpyDefined(a.ret, p, num_of_bytes)
          THEN {moved}
          ELSE {moved, ROutcome(L, sa, "undefined", NULL, a.cls, "stopped", NoCopy)}

\* only an unknown address is refused: a free block is reallocated
ReallocRefuses_found_only(L, f) == ~f.found

\* lines 247-256: the two early returns of NULL
ReallocRefuses(L, f) == ~f.found \/ L[f.sz][f.idx + 1].is_free

StaticArrayRealloc(L, sa, p, req) ==
  LET f == Helper_FindBlock(L, p) IN
  IF f.abort THEN {ROutcome(L, sa, "aborted", NULL, NUM_OF_BLOCK_SIZES, "stopped", NoCopy)}
  ELSE IF ReallocRefuses(L, f)
    THEN {ROutcome(L, sa, "running", NULL, NUM_OF_BLOCK_SIZES,
                   IF f.found THEN "free" ELSE "notfound", NoCopy)}
  ELSE IF req > (block_size(f.sz) \div 2) /\ req <= block_size(f.sz)
    THEN {ROutcome(L, sa, "running", p, NUM_OF_BLOCK_SIZES, "fits", NoCopy)}
  ELSE IF 0 = req
    THEN LET fr == StaticArrayFree(L, sa, p)
         IN  {ROutcome(fr.lists, fr.space_available, fr.status, NULL,
                       NUM_OF_BLOCK_SIZES, "zero", NoCopy)}
  ELSE UNION {ReallocMove(L, sa, p, req, f, a) : a \in StaticArrayAlloc(L, sa, req)}

----------------------------------------------------------------------------
(* StaticArrayPoolInit *)

\* the running offset starts again at 0 for every list
InitOffset_per_list(L, sz, j) == j * block_size(sz)

\* lines 123-136: the offset given to block j (C index) of list sz
InitOffset(L, sz, j) == SumLen(L, sz - 1) + j * block_size(sz)

InitLists(L) ==
  [sz \in Classes |-> [j \in 1 .. Len(L[sz]) |-> Blk(InitOffset(L, sz, j - 1), TRUE)]]

\* lines 130 and 134: the debug-build checks of the running offset
InitAssertsHold(L) ==
  \A sz \in Classes : \A j \in 0 .. (Len(L[sz]) - 1) :
     /\ InitOffset(L, sz, j) < VEC_ARRAY_ARENA_SIZE
     /\ InitOffset(L, sz, j) + block_size(sz) <= VEC_ARRAY_ARENA_SIZE

----------------------------------------------------------------------------
(* The program: the state after static initialization, and the public calls *)

NoCall == [op |-> "none", ptr |-> NULL, req |-> 0, was |-> FALSE]

\* no call is being followed loop by loop
Idle ==
  [pc |-> "idle", req |-> 0, p |-> NULL, sz |-> 0, i |-> 0, found |-> FALSE,
   block_ptr |-> NULL, space_allocated |-> 0, fsz |-> 0, fidx |-> 0, L0 |-> <<>>]

\* the program as loaded, built with or without NDEBUG
StartUp ==
  /\ NDEBUG \in BOOLEAN
  /\ lists = StaticLists(VEC_ARRAY_ARENA_SIZE)
  /\ arena_initialized = FALSE
  /\ space_available = StaticSpace(VEC_ARRAY_ARENA_SIZE)
  /\ status = "running"
  /\ call = NoCall
  /\ ret = NULL
  /\ ret_b = FALSE
  /\ cls = NUM_OF_BLOCK_SIZES
  /\ held = {}
  /\ mem = <<>>
  /\ path = "none"
  /\ scan = Idle
  /\ nops = 0

Init == VEC_ARRAY_ARENA_SIZE \in ArenaSizes /\ StartUp

CanCall == status = "running" /\ nops < MaxOps

\* addresses a caller may pass: NULL, an address inside a block, an address
\* outside the arena, every address a descriptor holds or the caller was given
ProbeAddrs == {NULL, 8, 1000000}

Addrs ==
  ProbeAddrs \cup {h.ptr : h \in held}
             \cup UNION {{lists[sz][j].ptr : j \in 1 .. Len(lists[sz])} : sz \in Classes}

WasAlloc(p) == StaticArrayIsAlloc(lists, p).ret

Release(H, p) == {h \in H : h.ptr # p}

\* StaticArrayPoolInit(), whenever it is called
PoolInitCall ==
  /\ IF ~NDEBUG /\ (arena_initialized \/ ~InitAssertsHold(lists))
       THEN status' = "aborted" /\ UNCHANGED <<lists, arena_initialized>>
       ELSE /\ lists' = InitLists(lists)
            /\ arena_initialized' = TRUE
            /\ status' = "running"
  /\ call' = [op |-> "Init", ptr |-> NULL, req |-> 0, was |-> FALSE]
  /\ ret' = NULL /\ ret_b' = FALSE /\ cls' = NUM_OF_BLOCK_SIZES
  /\ held' = {}
  /\ path' = "none"
  /\ nops' = nops + 1
  /\ UNCHANGED <<VEC_ARRAY_ARENA_SIZE, NDEBUG, space_available, mem, scan>>

PoolInit == CanCall /\ PoolInitCall

\* StaticArrayAlloc( req ), whenever it is called
AllocCall(req) ==
  /\ \E o \in StaticArrayAlloc(lists, space_available, req) :
       /\ lists' = o.lists
       /\ space_available' = o.space_available
       /\ status' = o.status
       /\ ret' = o.ret
       /\ cls' = o.cls
       /\ held' = IF o.ret # NULL
                    THEN held \cup {[ptr |-> o.ret, size |-> block_size(o.cls), by |-> "Alloc"]}
                    ELSE held
  /\ call' = [op |-> "Alloc", ptr |-> NULL, req |-> req, was |-> FALSE]
  /\ ret_b' = FALSE
  /\ path' = "none"
  /\ nops' = nops + 1
  /\ UNCHANGED <<VEC_ARRAY_ARENA_SIZE, NDEBUG, arena_initialized, mem, scan>>

Alloc(req) == CanCall /\ AllocCall(req)

\* StaticArrayFree( p ), whenever it is called
FreeCall(p) ==
  /\ LET fr == StaticArrayFree(lists, space_available, p) IN
       /\ lists' = fr.lists
       /\ space_available' = fr.space_available
       /\ status' = fr.status
       /\ held' = IF fr.status = "running" THEN Release(held, p) ELSE held
  /\ call' = [op |-> "Free", ptr |-> p, req |-> 0, was |-> WasAlloc(p)]
  /\ ret' = NULL /\ ret_b' = FALSE /\ cls' = NUM_OF_BLOCK_SIZES
  /\ path' = "none"
  /\ nops' = nops + 1
  /\ UNCHANGED <<VEC_ARRAY_ARENA_SIZE, NDEBUG, arena_initialized, mem, scan>>

Free(p) == CanCall /\ FreeCall(p)

Realloc(p, req) ==
  /\ CanCall
  /\ \E o \in StaticArrayRealloc(lists, space_available, p, req) :
       /\ lists' = o.lists
       /\ space_available' = o.space_available
       /\ status' = o.status
       /\ ret' = o.ret
       /\ cls' = o.cls
       /\ path' = o.path
       /\ mem' = IF o.copy = NoCopy THEN mem ELSE Append(mem, o.copy)
       /\ held' = IF o.status # "running" THEN held
                  ELSE IF o.path = "zero" THEN Release(held, p)
                  ELSE IF o.path = "moved"
                    THEN Release(held, p) \cup
                         {[ptr |-> o.ret, size |-> block_size(o.cls), by |-> "Realloc"]}
                    ELSE held
  /\ call' = [op |-> "Realloc", ptr |-> p, req |-> req, was |-> WasAlloc(p)]
  /\ ret_b' = FALSE
  /\ nops' = nops + 1
  /\ UNCHANGED <<VEC_ARRAY_ARENA_SIZE, NDEBUG, arena_initialized, scan>>

IsAllocated(p) ==
  /\ CanCall
  /\ LET r == StaticArrayIsAlloc(lists, p) IN
       /\ status' = r.status
       /\ ret_b' = r.ret
  /\ call' = [op |-> "IsAlloc", ptr |-> p, req |-> 0, was |-> WasAlloc(p)]
  /\ ret' = NULL /\ cls' = NUM_OF_BLOCK_SIZES
  /\ path' = "none"
  /\ nops' = nops + 1
  /\ UNCHANGED <<VEC_ARRAY_ARENA_SIZE, NDEBUG, lists, arena_initialized,
                 space_available, held, mem, scan>>

Next ==
  \/ PoolInit
  \/ \E req \in ReqSizes : Alloc(req)
  \/ \E p \in Addrs : Free(p)
  \/ \E p \in Addrs : \E req \in ReallocSizes : Realloc(p, req)
  \/ \E p \in Addrs : IsAllocated(p)

Spec == Init /\ [][Next]_vars

(* Init(), then StaticArrayAlloc of the smallest class size over and over,  *)
(* with no Free, until a call fails; every arena size up to MaxArena        *)
InitFill == VEC_ARRAY_ARENA_SIZE \in 1 .. MaxArena /\ StartUp

FillInit == status = "running" /\ ~arena_initialized /\ PoolInitCall

FillAlloc ==
  /\ status = "running" /\ arena_initialized
  /\ nops <= MaxFill
  /\ call.op = "Alloc" => ret # NULL
  /\ AllocCall(block_size(NUM_OF_BLOCK_SIZES - 1))

NextFill == FillInit \/ FillAlloc

SpecFill == InitFill /\ [][NextFill]_vars

(* Init(), then successful StaticArrayAlloc calls, then StaticArrayFree     *)
(* once on every address returned                                           *)
TripInit == status = "running" /\ ~arena_initialized /\ PoolInitCall

TripAlloc(req) ==
  /\ status = "running" /\ arena_initialized
  /\ call.op \in {"Init", "Alloc"}
  /\ nops <= MaxAllocs
  /\ AllocCall(req)
  /\ ret' # NULL

TripFree(p) ==
  /\ status = "running"
  /\ call.op \in {"Alloc", "Free"}
  /\ FreeCall(p)

NextTrip ==
  \/ TripInit
  \/ \E req \in TripSizes : TripAlloc(req)
  \/ \E p \in {h.ptr : h \in held} : TripFree(p)

SpecTrip == Init /\ [][NextTrip]_vars

(* Calls followed loop by loop: one step per iteration of the loops of      *)
(* StaticArrayAlloc (lines 183-235) and of Helper_FindBlock (lines 328-353) *)
(* as StaticArrayFree calls it.  scan.L0 holds the tables as they were when *)
(* the call was made (tuple index sz + 1 for list sz).                      *)
CanScan == scan.pc = "idle" /\ status = "running" /\ nops < MaxScanOps

Tables(L) == [k \in 1 .. NUM_OF_BLOCK_SIZES |-> L[k - 1]]

\* the call is over: it returned or stopped on an assertion
ScanDone(op, p, req, r, c, st) ==
  /\ status' = st
  /\ call' = [op |-> op, ptr |-> p, req |-> req, was |-> FALSE]
  /\ ret' = r /\ cls' = c /\ ret_b' = FALSE /\ path' = "none"
  /\ scan' = Idle
  /\ nops' = nops + 1
  /\ UNCHANGED <<VEC_ARRAY_ARENA_SIZE, NDEBUG, arena_initialized, mem>>

\* the call goes on: only the tables and the locals of the call may change
ScanOn == UNCHANGED <<VEC_ARRAY_ARENA_SIZE, NDEBUG, arena_initialized, mem,
                      space_available, call, ret, ret_b, cls, held, path, nops>>

ScanPoolInit == CanScan /\ ~arena_initialized /\ PoolInitCall

\* lines 158-180: the checks made before the loop over the classes
ScanAllocEnter(req) ==
  /\ CanScan
  /\ IF ~NDEBUG /\ ~arena_initialized
       THEN /\ ScanDone("Alloc", NULL, req, NULL, NUM_OF_BLOCK_SIZES, "aborted")
            /\ UNCHANGED <<lists, space_available, held>>
     ELSE IF OutOfSpace(req, space_available)
       THEN /\ ScanDone("Alloc", NULL, req, NULL, NUM_OF_BLOCK_SIZES, "running")
            /\ UNCHANGED <<lists, space_available, held>>
     ELSE IF ~NDEBUG /\ (~ListsSortedAssert \/ req > 1024)
       THEN /\ ScanDone("Alloc", NULL, req, NULL, NUM_OF_BLOCK_SIZES, "aborted")
            /\ UNCHANGED <<lists, space_available, held>>
     ELSE /\ scan' = [Idle EXCEPT !.pc = "class", !.req = req, !.L0 = Tables(lists)]
          /\ ScanOn
          /\ UNCHANGED <<lists, status>>

\* lines 183-188: one test of the loop over the classes
ScanClass ==
  /\ scan.pc = "class"
  /\ scan' = IF scan.sz = NUM_OF_BLOCK_SIZES THEN [scan EXCEPT !.pc = "ret"]
             ELSE IF Skips(scan.req, scan.sz) THEN [scan EXCEPT !.sz = @ + 1]
             ELSE [scan EXCEPT !.pc = "hit", !.i = 0]
  /\ ScanOn
  /\ UNCHANGED <<lists, status>>

\* lines 194-216: one iteration of the scan of the selected list, or what
\* follows its end
ScanHit ==
  /\ scan.pc = "hit"
  /\ ScanOn
  /\ LET list == lists[scan.sz] IN
     IF scan.i < Len(list)
       THEN /\ status' = status
            /\ IF list[scan.i + 1].is_free
                 THEN /\ lists' = [lists EXCEPT ![scan.sz][scan.i + 1].is_free = FALSE]
                      /\ scan' = [scan EXCEPT !.found = TRUE,
                                              !.space_allocated = block_size(scan.sz),
                                              !.block_ptr = list[scan.i + 1].ptr,
                                              !.i = @ + 1]
                 ELSE /\ lists' = lists
                      /\ scan' = [scan EXCEPT !.i = @ + 1]
     ELSE IF scan.found \/ scan.sz = BLKS_LARGEST_SIZE
       THEN /\ scan' = [scan EXCEPT !.pc = "ret"]
            /\ UNCHANGED <<lists, status>>
     ELSE IF DonorOf(scan.sz) \notin Classes
       \* ArrayArena.lists[NUM_OF_BLOCK_SIZES] is read: a len of 0 ends the
       \* scan at once, anything else is not defined
       THEN /\ lists' = lists
            /\ \/ scan' = [scan EXCEPT !.pc = "ret"] /\ status' = status
               \/ scan' = [scan EXCEPT !.pc = "lost"] /\ status' = "undefined"
     ELSE /\ scan' = [scan EXCEPT !.pc = "split",
                                  !.i = Len(lists[DonorOf(scan.sz)]) - 1]
          /\ UNCHANGED <<lists, status>>

\* lines 216-231: one iteration of the scan of lists[sz + 1] from its tail
ScanSplit ==
  /\ scan.pc = "split"
  /\ ScanOn
  /\ LET dn    == DonorOf(scan.sz)
         donor == scan.L0[dn + 1]
     IN
     IF scan.i < 0
       THEN /\ scan' = [scan EXCEPT !.pc = "ret"]
            /\ UNCHANGED <<lists, status>>
     ELSE IF ~donor[scan.i + 1].is_free
       THEN /\ scan' = [scan EXCEPT !.i = @ - 1]
            /\ UNCHANGED <<lists, status>>
     ELSE
       \/ /\ lists' = [lists EXCEPT
                         ![dn] = SubSeq(donor, 1, Len(lists[dn]) - 1),
                         ![scan.sz] = @ \o SplitPair(donor[scan.i + 1], block_size(dn))]
          /\ scan' = [scan EXCEPT !.found = TRUE,
                                  !.space_allocated = block_size(scan.sz),
                                  !.block_ptr = donor[scan.i + 1].ptr,
                                  !.i = @ - 1]
          /\ status' = status
       \* list->blocks[list->len] written past the end of the table
       \/ /\ Len(lists[scan.sz]) + 2 > LIST_CAPACITY(scan.sz)
          /\ scan' = [scan EXCEPT !.pc = "lost"]
          /\ status' = "undefined"
          /\ lists' = lists

\* lines 237-238: the debit and the return
ScanReturn ==
  /\ scan.pc = "ret"
  /\ space_available' = Debit(space_available, scan.space_allocated)
  /\ held' = IF scan.block_ptr # NULL
               THEN held \cup {[ptr |-> scan.block_ptr, size |-> block_size(scan.sz),
                                by |-> "Alloc"]}
               ELSE held
  /\ lists' = lists
  /\ ScanDone("Alloc", NULL, scan.req, scan.block_ptr, scan.sz, "running")

\* lines 292-296 and 321-323: StaticArrayFree calls Helper_FindBlock
ScanFreeEnter(p) ==
  /\ CanScan
  /\ IF ~NDEBUG /\ ~arena_initialized
       THEN /\ ScanDone("Free", p, 0, NULL, NUM_OF_BLOCK_SIZES, "aborted")
            /\ UNCHANGED <<lists, space_available, held>>
     ELSE IF p = NULL
       THEN /\ ScanDone("Free", p, 0, NULL, NUM_OF_BLOCK_SIZES, "running")
            /\ UNCHANGED <<lists, space_available, held>>
     ELSE /\ scan' = [Idle EXCEPT !.pc = "find", !.p = p, !.L0 = Tables(lists)]
          /\ ScanOn
          /\ UNCHANGED <<lists, status>>

\* lines 328-359: one iteration of the scan of Helper_FindBlock, or its end
ScanFind ==
  /\ scan.pc = "find"
  /\ IF scan.sz = NUM_OF_BLOCK_SIZES
       THEN IF scan.found
              THEN scan' = [scan EXCEPT !.pc = "free"] /\ ScanOn /\ UNCHANGED <<lists, status>>
              ELSE /\ ScanDone("Free", scan.p, 0, NULL, NUM_OF_BLOCK_SIZES, "running")
                   /\ UNCHANGED <<lists, space_available, held>>
     ELSE IF scan.i >= Len(lists[scan.sz])
       THEN scan' = [scan EXCEPT !.sz = @ + 1, !.i = 0] /\ ScanOn /\ UNCHANGED <<lists, status>>
     ELSE IF lists[scan.sz][scan.i + 1].ptr # scan.p
       THEN scan' = [scan EXCEPT !.i = @ + 1] /\ ScanOn /\ UNCHANGED <<lists, status>>
     ELSE IF NDEBUG
       THEN /\ scan' = [scan EXCEPT !.pc = "free", !.fsz = scan.sz, !.fidx = scan.i]
            /\ ScanOn /\ UNCHANGED <<lists, status>>
     ELSE IF scan.found
       \* assert( !blk_found )
       THEN /\ ScanDone("Free", scan.p, 0, NULL, NUM_OF_BLOCK_SIZES, "aborted")
            /\ UNCHANGED <<lists, space_available, held>>
     ELSE /\ scan' = [scan EXCEPT !.found = TRUE, !.fsz = scan.sz, !.fidx = scan.i,
                                  !.i = @ + 1]
          /\ ScanOn /\ UNCHANGED <<lists, status>>

\* lines 298-299, on the block the lookup reported
ScanFree ==
  /\ scan.pc = "free"
  /\ LET fr == FreeBlock(lists, space_available, [sz |-> scan.fsz, idx |-> scan.fidx]) IN
       /\ lists' = fr.lists
       /\ space_available' = fr.space_available
  /\ held' = Release(held, scan.p)
  /\ ScanDone("Free", scan.p, 0, NULL, NUM_OF_BLOCK_SIZES, "running")

ScanStep ==
  \/ ScanClass
  \/ ScanHit
  \/ ScanSplit
  \/ ScanReturn
  \/ ScanFind
  \/ ScanFree

NextScan ==
  \/ ScanPoolInit
  \/ \E req \in ScanSizes : ScanAllocEnter(req)
  \/ \E p \in Addrs : ScanFreeEnter(p)
  \/ ScanStep

\* a call that has begun is never left in the middle of a loop
SpecScan == Init /\ [][NextScan]_vars /\ WF_vars(ScanStep)

\* at its return, the call followed loop by loop has done what
\* StaticArrayAlloc says of the call made on the tables scan.L0
ScanAgreesAlloc ==
  scan.pc = "ret" =>
    Outcome(lists, Debit(space_available, scan.space_allocated), "running",
            scan.block_ptr, scan.sz)
      \in StaticArrayAlloc([sz \in Classes |-> scan.L0[sz + 1]],
                           space_available, scan.req)

\* the block the scan of the lookup reports is the one Helper_FindBlock names
ScanAgreesFind ==
  scan.pc = "free" =>
    LET f == Helper_FindBlock(lists, scan.p)
    IN  f.found /\ ~f.abort /\ f.sz = scan.fsz /\ f.idx = scan.fidx

----------------------------------------------------------------------------
(* Properties *)

Live(L) ==
  UNION {{[sz |-> s, idx |-> i] : i \in 0 .. (Len(L[s]) - 1)} : s \in Classes}

DescPtr(L, d) == L[d.sz][d.idx + 1].ptr

DescFree(L, d) == L[d.sz][d.idx + 1].is_free

RECURSIVE SumSizes(_)
SumSizes(D) ==
  IF D = {} THEN 0
  ELSE LET d == CHOOSE x \in D : TRUE IN block_size(d.sz) + SumSizes(D \ {d})

AllocatedBytes(L) == SumSizes({d \in Live(L) : ~DescFree(L, d)})

\* smallest class whose size is >= req
BestFit(req) == Max({sz \in Classes : block_size(sz) >= req})

AllocStep == call'.op = "Alloc" /\ nops' = nops + 1

\* C1: the byte ranges [a, a + class_size) of the blocks handed out by a
\* successful Alloc / Realloc and not yet freed are pairwise disjoint.
C1_NoDoubleAllocation ==
  \A h1 \in held : \A h2 \in held :
     h1 # h2 => ~Overlap(h1.ptr, h1.size, h2.ptr, h2.size)

\* C2: after Init, no two live descriptors, of the same class or of different
\* classes, describe overlapping ranges [address, address + class_size).
C2_NoOverlap ==
  arena_initialized =>
    \A d1 \in Live(lists) : \A d2 \in Live(lists) :
       d1 # d2 => ~Overlap(DescPtr(lists, d1), block_size(d1.sz),
                           DescPtr(lists, d2), block_size(d2.sz))

\* C3: after Init, space_available plus the class sizes of all descriptors
\* with is_free = false equals ARENA_SIZE - (ARENA_SIZE mod 32).
C3_SpaceAccounting ==
  (arena_initialized /\ status = "running") =>
    space_available + AllocatedBytes(lists)
      = VEC_ARRAY_ARENA_SIZE - (VEC_ARRAY_ARENA_SIZE % 32)

\* C4: after Init, no two live descriptors have the same address.
C4_UniqueIdentity ==
  arena_initialized =>
    \A d1 \in Live(lists) : \A d2 \in Live(lists) :
       d1 # d2 => DescPtr(lists, d1) # DescPtr(lists, d2)

\* C5: an address returned by a successful Alloc is reported allocated by
\* IsAllocated in every later state until it is freed or released by Realloc.
C5_AllocatedUntilFreed ==
  status = "running" =>
    \A h \in held : h.by = "Alloc" => StaticArrayIsAlloc(lists, h.ptr).ret

\* C6: IsAllocated(p) is false immediately after Free(p), for every p.
C6_FreeThenNotAllocated ==
  (call.op = "Free" /\ status = "running") =>
    LET r == StaticArrayIsAlloc(lists, call.ptr)
    IN  r.status = "running" /\ ~r.ret

C6_Witness ==
  /\ call.op = "Free" /\ call.was /\ status = "running" /\ arena_initialized
  /\ \E d \in Live(lists) : DescPtr(lists, d) = call.ptr /\ DescFree(lists, d)
  /\ \E d \in Live(lists) : ~DescFree(lists, d)
  /\ space_available < StaticSpace(VEC_ARRAY_ARENA_SIZE)

\* C7: a successful Alloc(n) returns a block of class size c with n <= c and
\* c/2 < n (or the block is of the smallest class), so a request of exactly
\* a class size is served from that class.
C7_BestFit ==
  (call.op = "Alloc" /\ ret # NULL) =>
    /\ call.req <= block_size(cls)
    /\ (block_size(cls) \div 2 < call.req \/ cls = NUM_OF_BLOCK_SIZES - 1)

\* C8: after Init, Alloc(n) with 0 < n <= 1024 succeeds whenever the smallest
\* class whose size is >= n holds a free block and n <= space_available.
C8_AllocSucceeds ==
  [][ ( /\ AllocStep
        /\ arena_initialized
        /\ call'.req \in 1 .. 1024
        /\ FreeIdx(lists[BestFit(call'.req)]) # {}
        /\ call'.req <= space_available )
      => (ret' # NULL /\ status' = "running") ]_vars

\* C9: after Init, Alloc(n) with n > 1024 returns failure to the caller:
\* it neither returns a block nor stops on an assertion.
C9_TooLargeFails ==
  (call.op = "Alloc" /\ call.req > 1024 /\ arena_initialized) =>
    (ret = NULL /\ status = "running")

\* C10: after Init, Alloc(n) with n > space_available returns no block and
\* changes no descriptor, no list length and not space_available.
C10_OutOfSpaceFails ==
  [][ ( /\ AllocStep
        /\ arena_initialized
        /\ space_available >= 0
        /\ call'.req > space_available )
      => ( /\ ret' = NULL
           /\ status' = "running"
           /\ lists' = lists
           /\ space_available' = space_available ) ]_vars

C10_Witness ==
  /\ call.op = "Alloc" /\ ret = NULL /\ status = "running" /\ arena_initialized
  /\ space_available >= 0 /\ call.req > space_available
  /\ space_available < StaticSpace(VEC_ARRAY_ARENA_SIZE)
  /\ \E d \in Live(lists) : DescFree(lists, d) /\ block_size(d.sz) >= call.req

FreeStep == call'.op = "Free" /\ nops' = nops + 1

ReallocStep == call'.op = "Realloc" /\ nops' = nops + 1

DescAt(L, p) == {d \in Live(L) : DescPtr(L, d) = p}

AllocatedAt(L, p) == {d \in DescAt(L, p) : ~DescFree(L, d)}

MarkedFree(L, d) == [L EXCEPT ![d.sz][d.idx + 1].is_free = TRUE]

\* the n bytes at q in m2 are the n bytes that were at p in m1
SameBytes(m2, q, m1, p, n) ==
  \A k \in 0 .. (n - 1) : Val(m2, q + k) = Val(m1, p + k)

\* C11: after Init, Alloc(n) with 0 < n <= 1024 and n <= space_available
\* succeeds exactly when the smallest class whose size is >= n, or any larger
\* class, holds a free block (splitting through as many classes as needed).
C11_CascadingSplit ==
  [][ ( /\ AllocStep
        /\ arena_initialized
        /\ call'.req \in 1 .. 1024
        /\ call'.req <= space_available )
      => ( (ret' # NULL) <=>
           (\E sz \in 0 .. BestFit(call'.req) : FreeIdx(lists[sz]) # {}) ) ]_vars

\* C12: Free(p) on the start address of an allocated block sets exactly that
\* descriptor's is_free and adds exactly its class size to space_available;
\* every other flag, every address and every list length are unchanged.
C12_FreeEffect ==
  [][ ( /\ FreeStep
        /\ arena_initialized
        /\ AllocatedAt(lists, call'.ptr) # {} )
      => ( \E d \in AllocatedAt(lists, call'.ptr) :
             /\ lists' = MarkedFree(lists, d)
             /\ space_available' = space_available + block_size(d.sz) ) ]_vars

\* C13: Free(p) on the start address of a block that is already free changes
\* neither space_available nor any descriptor.
C13_DoubleFreeNoOp ==
  [][ ( /\ FreeStep
        /\ arena_initialized
        /\ DescAt(lists, call'.ptr) # {}
        /\ AllocatedAt(lists, call'.ptr) = {} )
      => ( lists' = lists /\ space_available' = space_available ) ]_vars

\* C14: Free of an address that is not the start address of a live descriptor
\* (NULL, outside the arena, inside a block) changes no descriptor, no list
\* length and not space_available, and IsAllocated of the address is false.
C14_FreeUnknownNoOp ==
  [][ ( /\ FreeStep
        /\ arena_initialized
        /\ DescAt(lists, call'.ptr) = {} )
      => ( /\ lists' = lists
           /\ space_available' = space_available
           /\ status' = "running"
           /\ ~StaticArrayIsAlloc(lists', call'.ptr).ret ) ]_vars

C14_Witness ==
  /\ call.op = "Free" /\ status = "running" /\ arena_initialized
  /\ DescAt(lists, call.ptr) = {}
  /\ \E d \in Live(lists) :
       /\ ~DescFree(lists, d)
       /\ DescPtr(lists, d) < call.ptr
       /\ call.ptr < DescPtr(lists, d) + block_size(d.sz)

\* C15: Realloc(p, n) on an allocated block p of class size c with
\* c/2 < n <= c returns p and changes nothing.
C15_ReallocInPlace ==
  [][ ( /\ ReallocStep
        /\ arena_initialized
        /\ \E d \in AllocatedAt(lists, call'.ptr) :
             /\ call'.req > block_size(d.sz) \div 2
             /\ call'.req <= block_size(d.sz) )
      => ( /\ ret' = call'.ptr
           /\ status' = "running"
           /\ lists' = lists
           /\ space_available' = space_available
           /\ mem' = mem ) ]_vars

\* C16: Realloc(p, n) returns NULL and changes nothing when p is not the
\* start address of a live descriptor or the descriptor at p is free (no
\* descriptor at p is allocated).
C16_ReallocRefused ==
  [][ ( /\ ReallocStep
        /\ arena_initialized
        /\ AllocatedAt(lists, call'.ptr) = {} )
      => ( /\ ret' = NULL
           /\ status' = "running"
           /\ lists' = lists
           /\ space_available' = space_available
           /\ mem' = mem ) ]_vars

C16_Witness ==
  /\ call.op = "Realloc" /\ path = "free" /\ ret = NULL
  /\ status = "running" /\ arena_initialized
  /\ \E d \in DescAt(lists, call.ptr) :
       call.req > block_size(d.sz) \div 2 /\ call.req <= block_size(d.sz)
  /\ \E d \in Live(lists) : ~DescFree(lists, d)

\* C17: Realloc(p, 0) on an allocated block p does what Free(p) does (the
\* block becomes free, space_available grows by its class size) and returns
\* NULL.
C17_ReallocZeroFrees ==
  [][ ( /\ ReallocStep
        /\ arena_initialized
        /\ call'.req = 0
        /\ AllocatedAt(lists, call'.ptr) # {} )
      => ( /\ ret' = NULL
           /\ lists' = StaticArrayFree(lists, space_available, call'.ptr).lists
           /\ space_available' =
                StaticArrayFree(lists, space_available, call'.ptr).space_available
           /\ \E d \in AllocatedAt(lists, call'.ptr) :
                /\ lists' = MarkedFree(lists, d)
                /\ space_available' = space_available + block_size(d.sz) ) ]_vars

\* C18: a Realloc(p, n) of an allocated block that moves it returns q # p
\* with q allocated, p free, the first min(old_class_size, n) bytes at q
\* equal to those that were at p, and the blocks at p and q disjoint.
C18_ReallocMoves ==
  [][ ( /\ ReallocStep
        /\ arena_initialized
        /\ path' = "moved"
        /\ AllocatedAt(lists, call'.ptr) # {} )
      => LET old == block_size(Helper_FindBlock(lists, call'.ptr).sz)
             n   == IF call'.req > old THEN old ELSE call'.req
         IN  /\ ret' # call'.ptr
             /\ StaticArrayIsAlloc(lists', ret').ret
             /\ ~StaticArrayIsAlloc(lists', call'.ptr).ret
             /\ SameBytes(mem', ret', mem, call'.ptr, n)
             /\ ~Overlap(call'.ptr, old, ret', block_size(cls')) ]_vars

\* C19: for a class size s below the largest, a = Alloc(s) that succeeded
\* followed by Realloc(a, s + 1), with a free block of the next class
\* available, returns b # a, the first s bytes at b are those that were at a,
\* and a is free afterwards.
C19_GrowMoves ==
  [][ ( /\ call.op = "Alloc" /\ ret # NULL /\ status = "running"
        /\ call.req \in {block_size(sz) : sz \in Classes \ {BLKS_LARGEST_SIZE}}
        /\ ReallocStep
        /\ call'.ptr = ret
        /\ call'.req = call.req + 1
        /\ FreeIdx(lists[BestFit(call.req + 1)]) # {} )
      => ( /\ status' = "running"
           /\ ret' # NULL
           /\ ret' # ret
           /\ SameBytes(mem', ret', mem, ret, call.req)
           /\ ~StaticArrayIsAlloc(lists', ret).ret ) ]_vars

\* C20: when the Alloc inside Realloc(p, n) fails, p is still allocated at
\* the same address with the same contents, and descriptors, list lengths
\* and space_available are as before the call.
C20_ReallocFailKeeps ==
  [][ ( ReallocStep /\ path' = "allocfail" )
      => ( /\ status' = "running"
           /\ ret' = call'.ptr
           /\ lists' = lists
           /\ space_available' = space_available
           /\ mem' = mem
           /\ StaticArrayIsAlloc(lists', call'.ptr).ret ) ]_vars

C20_Witness ==
  /\ call.op = "Realloc" /\ path = "allocfail" /\ call.was
  /\ status = "running" /\ arena_initialized
  /\ ret = call.ptr
  /\ StaticArrayIsAlloc(lists, call.ptr).ret

IsAllocStep == call'.op = "IsAlloc" /\ nops' = nops + 1

\* the allocated descriptors of L as (class, address) pairs
AllocKeys(L) == {<<d.sz, DescPtr(L, d)>> : d \in {e \in Live(L) : ~DescFree(L, e)}}

\* the free descriptors of L as (class, address) pairs
FreeKeys(L) == {<<d.sz, DescPtr(L, d)>> : d \in {e \in Live(L) : DescFree(L, e)}}

\* the sequence s without its element of index j
RemoveAt(s, j) == SubSeq(s, 1, j - 1) \o SubSeq(s, j + 1, Len(s))

\* C21: the value Realloc(p, n) returns when its inner Alloc fails differs
\* from the value Realloc returns for p when the request fits the current
\* class, so that the caller can tell the failure from the block kept in place.
C21_FailureDistinct ==
  [][ ( ReallocStep /\ path' = "allocfail" /\ status' = "running" )
      => ( \A n \in ReallocSizes :
             \A o \in StaticArrayRealloc(lists, space_available, call'.ptr, n) :
                o.path = "fits" => o.ret # ret' ) ]_vars

\* C25: after Init, IsAllocated(p) returns true exactly when some live
\* descriptor has address p and is_free = false, and it changes no state.
C25_IsAllocatedExact ==
  [][ ( IsAllocStep /\ arena_initialized )
      => ( /\ status' = "running"
           /\ ret_b' <=> (AllocatedAt(lists, call'.ptr) # {})
           /\ lists' = lists
           /\ space_available' = space_available
           /\ mem' = mem ) ]_vars

\* C26: in every reachable state, for every class c,
\* 0 <= length[c] <= capacity[c] = ARENA_SIZE / class_size[c] + 1.
C26_CapacityBound ==
  \A sz \in Classes : Len(lists[sz]) <= LIST_CAPACITY(sz)

\* C27: after Init, when the selected class holds a free descriptor, Alloc
\* returns the address of the lowest-index free descriptor of that class.
C27_DirectHitFirst ==
  [][ ( /\ AllocStep
        /\ arena_initialized
        /\ status' = "running"
        /\ ~OutOfSpace(call'.req, space_available)
        /\ Selected(call'.req) \in Classes
        /\ FreeIdx(lists[Selected(call'.req)]) # {} )
      => LET list == lists[Selected(call'.req)]
         IN  ret' = list[Min(FreeIdx(list))].ptr ]_vars

\* C28: a successful Alloc allocates exactly one block: exactly one
\* descriptor, the returned one, is allocated afterwards that was not
\* allocated before, and every other descriptor that was free before the call
\* (the split donor apart, which is replaced) is still free after it.
C28_AllocOneBlock ==
  [][ ( AllocStep /\ arena_initialized /\ status' = "running" /\ ret' # NULL )
      => ( /\ AllocKeys(lists') \ AllocKeys(lists) = {<<cls', ret'>>}
           /\ \A k \in FreeKeys(lists) :
                k[2] = ret' \/ k \in FreeKeys(lists') ) ]_vars

\* C29: when the selected class (size s) has no free block and the
\* next-larger class (size 2s) has one, Alloc takes the donor block from the
\* next-larger class: its list gets one shorter, the selected list gets
\* {addr, allocated} and {addr + s, free} appended, addr being the donor
\* block's address, and Alloc returns addr.
C29_SplitStep ==
  [][ ( /\ AllocStep
        /\ arena_initialized
        /\ status' = "running"
        /\ ~OutOfSpace(call'.req, space_available)
        /\ Selected(call'.req) \in Classes \ {BLKS_LARGEST_SIZE}
        /\ FreeIdx(lists[Selected(call'.req)]) = {}
        /\ FreeIdx(lists[Selected(call'.req) - 1]) # {} )
      => LET sz    == Selected(call'.req)
             donor == lists[sz - 1]
             addr  == donor[Max(FreeIdx(donor))].ptr
         IN  /\ Len(lists'[sz - 1]) = Len(donor) - 1
             /\ lists'[sz] = lists[sz] \o <<Blk(addr, FALSE),
                                            Blk(addr + block_size(sz), TRUE)>>
             /\ ret' = addr ]_vars

\* C30: an Alloc that takes the split path splits exactly one block: the
\* donor list loses exactly its highest-index free descriptor (so no
\* allocated descriptor disappears and the split block does not stay live in
\* the donor list) and the selected list gains exactly two descriptors.
C30_SingleSplit ==
  [][ ( /\ AllocStep
        /\ arena_initialized
        /\ status' = "running"
        /\ ret' # NULL
        /\ cls' \in Classes
        /\ FreeIdx(lists[cls']) = {} )
      => LET donor == lists[DonorOf(cls')]
         IN  /\ lists'[DonorOf(cls')] = RemoveAt(donor, Max(FreeIdx(donor)))
             /\ Len(lists'[cls']) = Len(lists[cls']) + 2 ]_vars

InitStep == call'.op = "Init" /\ nops' = nops + 1

\* the descriptors of L, by class from largest to smallest and by index
RECURSIVE Flat(_, _)
Flat(L, sz) ==
  IF sz < 0 THEN <<>>
  ELSE Flat(L, sz - 1) \o
       [j \in 1 .. Len(L[sz]) |->
          [ptr |-> L[sz][j].ptr, is_free |-> L[sz][j].is_free, size |-> block_size(sz)]]

\* C22: after Init and any sequence of successful Allocs, Free called once
\* on every returned address brings space_available back to its value after
\* Init, ARENA_SIZE - (ARENA_SIZE mod 32).
C22_RoundTrip ==
  (call.op = "Free" /\ held = {} /\ status = "running") =>
    space_available = VEC_ARRAY_ARENA_SIZE - (VEC_ARRAY_ARENA_SIZE % 32)

\* C23: after Init, with nothing but Alloc(32) calls, a call succeeds as long
\* as space_available has not reached 0, and fails once it has.
C23_FillToExhaustion ==
  [][ AllocStep
      => ( /\ status' = "running"
           /\ (ret' # NULL) <=> (space_available > 0) ) ]_vars

\* C24: the first Init leaves, for every ARENA_SIZE, floor(remaining /
\* class_size) descriptors in each class, remaining being what the larger
\* classes left; the addresses, by class from largest to smallest and by
\* index, start at offset 0 and each is the one before plus that block's class
\* size; every descriptor is free; and the blocks cover exactly
\* ARENA_SIZE - (ARENA_SIZE mod 32) bytes, which equals space_available.
C24_InitPostcondition ==
  [][ ( InitStep /\ ~arena_initialized )
      => LET F == Flat(lists', NUM_OF_BLOCK_SIZES - 1)
             A == VEC_ARRAY_ARENA_SIZE
         IN  /\ status' = "running"
             /\ arena_initialized'
             /\ \A sz \in Classes :
                  Len(lists'[sz]) = (A - SumLen(lists', sz - 1)) \div block_size(sz)
             /\ F # <<>> => F[1].ptr = 0
             /\ \A k \in 1 .. (Len(F) - 1) : F[k + 1].ptr = F[k].ptr + F[k].size
             /\ \A k \in 1 .. Len(F) : F[k].is_free
             /\ \A k \in 1 .. Len(F) : F[k].ptr + F[k].size <= A - (A % 32)
             /\ SumLen(lists', NUM_OF_BLOCK_SIZES - 1) = A - (A % 32)
             /\ space_available' = A - (A % 32) ]_vars

C24_Witness ==
  /\ call.op = "Init" /\ nops = 1 /\ arena_initialized /\ status = "running"
  /\ VEC_ARRAY_ARENA_SIZE % 32 # 0
  /\ Cardinality({sz \in Classes : Len(lists[sz]) > 0}) >= 3
  /\ Len(lists[BLKS_LARGEST_SIZE]) >= 1
  /\ \A d \in Live(lists) : DescFree(lists, d)

CallStep == nops' = nops + 1

\* C31: an Alloc call that returns failure leaves every descriptor, every
\* list length and space_available as they were before the call.
C31_FailedAllocNoChange ==
  [][ ( AllocStep /\ ret' = NULL /\ status' = "running" )
      => ( lists' = lists /\ space_available' = space_available ) ]_vars

C31_Witness ==
  /\ call.op = "Alloc" /\ ret = NULL /\ status = "running" /\ arena_initialized
  /\ ~OutOfSpace(call.req, space_available)
  /\ cls \in Classes \ {BLKS_LARGEST_SIZE}
  /\ DonorOf(cls) \in Classes
  /\ FreeIdx(lists[cls]) = {}
  /\ \E d \in Live(lists) : DescFree(lists, d)

\* C32: in every reachable state the sum over the classes of
\* length[c] * class_size[c] equals ARENA_SIZE - (ARENA_SIZE mod 32).
C32_BytesConserved ==
  SumLen(lists, NUM_OF_BLOCK_SIZES - 1)
    = VEC_ARRAY_ARENA_SIZE - (VEC_ARRAY_ARENA_SIZE % 32)

\* C33: after Init, the range [address, address + class_size) of every live
\* descriptor lies inside the arena [0, ARENA_SIZE).
C33_BlocksInsideArena ==
  arena_initialized =>
    \A d \in Live(lists) :
       /\ DescPtr(lists, d) >= 0
       /\ DescPtr(lists, d) + block_size(d.sz) <= VEC_ARRAY_ARENA_SIZE

\* C34: a debug-build Alloc, made after Init with req_bytes <= space_available
\* and req_bytes <= the largest class size, does not stop on the check that
\* the lists are in order of descending block size.
C34_SortedCheckHolds ==
  [][ ( /\ AllocStep
        /\ ~NDEBUG
        /\ arena_initialized
        /\ ~OutOfSpace(call'.req, space_available)
        /\ call'.req <= block_size(BLKS_LARGEST_SIZE) )
      => status' = "running" ]_vars

\* C35: after Init, when Alloc takes the split path for a selected class sz other than
\* the largest, the neighbouring list lists[sz + 1] it reads is one of the
\* lists 0 .. NUM_OF_BLOCK_SIZES - 1.
C35_ListIndexInRange ==
  [][ ( /\ AllocStep
        /\ arena_initialized
        /\ status' # "aborted"
        /\ ~OutOfSpace(call'.req, space_available)
        /\ Selected(call'.req) \in Classes \ {BLKS_LARGEST_SIZE}
        /\ FreeIdx(lists[Selected(call'.req)]) = {} )
      => DonorOf(Selected(call'.req)) \in Classes ]_vars

\* C36: space_available stays within 0 .. ARENA_SIZE - (ARENA_SIZE mod 32) in
\* every reachable state.
C36_SpaceInRange ==
  /\ space_available >= 0
  /\ space_available <= VEC_ARRAY_ARENA_SIZE - (VEC_ARRAY_ARENA_SIZE % 32)

\* C37: in every reachable state and for every address, the lookup that scans
\* to the end and keeps the last match (debug build) and the lookup that
\* returns at the first match (release build) find the same (class, index),
\* and the debug lookup's uniqueness assertion holds.
C37_LookupEquivalence ==
  \A p \in Addrs \ {NULL} :
     LET M == Matches(lists, p)
     IN  M # {} => (FirstMatch(M) = LastMatch(M) /\ Cardinality(M) = 1)

C39_EveryCallReturns == (scan.pc # "idle") ~> (scan.pc = "idle")

====
